---------------------------- MODULE Spec2Model ----------------------------
(***************************************************************************)
(* The notebook 03-parcels-attach-blocks-network-nodes.ipynb as a state    *)
(* machine: one action per code cell, run top to bottom ("Run All"); a     *)
(* cell that raises stops the run.                                         *)
(*                                                                         *)
(* Cells 3, 5 and 6 (the block lookup and its merge) and cell 15 (the       *)
(* shapefile copy of the output) read and write no state of the nearest-   *)
(* node search and are left out; the parcels of the input all have a       *)
(* geometry, so that dropna in cell 2 keeps every row.  cKDTree, BallTree, *)
(* np.deg2rad and nodes.iloc are modelled by what scipy, scikit-learn,     *)
(* numpy and pandas do on the call the cell makes.                         *)
(*                                                                         *)
(* Coordinates are integers (degrees).  Floating-point radians and         *)
(* haversine values are fixed-point integers with Scale units per 1.0.     *)
(* Row positions are 0-based as in numpy/pandas: position p of a table is  *)
(* element p+1 of the TLA+ sequence.                                       *)
(***************************************************************************)
EXTENDS Integers, Sequences, FiniteSets, TLC

\* ------------------------------------------------------------------ bounds
\* Largest number of rows of the nodes CSV and of the parcels shapefile.
MaxNodes == 2
MaxParcels == 2

\* ------------------------------------------------------------ input domain
\* np.nan: the x of a centroid that has no coordinates (parcels.geometry.x).
NaN == -1
\* np.inf: cKDTree's distance for "no neighbour found".
Inf == 2147483647
\* Fixed-point resolution that stands for float64.
Scale == 10000

NodeIds == 1..MaxNodes
NodeX == {0, 60}
NodeY == {30, 60}
ParcelX == {0, 30, NaN}
ParcelY == {60}

NodeRow == [osmid : NodeIds, x : NodeX, y : NodeY]
ParcelRow == [x : ParcelX, y : ParcelY]

SeqsUpTo(S, n) == UNION {[1..k -> S] : k \in 0..n}

\* ------------------------------------------------------------------- state
VARIABLES
    pc,          \* the next cell to run, "done" or "failed"
    err,         \* the exception that stopped the run: [cell, kind]
    nodes_csv,   \* rows of data/network/bay_area_full_strongly_nodes.csv
    parcels_shp, \* centroids of the geometries of data/Parcels/
    nodes,       \* the nodes dataframe, indexed by osmid
    parcels,     \* the parcels dataframe's x, y columns
    tree,        \* the notebook's global `tree`
    dist,        \* the notebook's global `dist`
    idx,         \* the notebook's global `idx`
    node,        \* the column parcels['node']
    nodes_rad,   \* the notebook's global `nodes_rad`
    parcels_rad, \* the notebook's global `parcels_rad`
    df_save      \* the rows written to data/parcels_blocks_nodes.csv

vars == <<pc, err, nodes_csv, parcels_shp, nodes, parcels, tree, dist, idx,
          node, nodes_rad, parcels_rad, df_save>>

NoErr == [cell |-> "", kind |-> ""]
NoTree == [kind |-> "none", data |-> <<>>]

\* ---------------------------------------------------------------- helpers
Abs(a) == IF a < 0 THEN -a ELSE a

IsFinite(v) == v # NaN /\ v # Inf

\* pandas Index.is_unique
is_unique(tbl) ==
    \A i, j \in 1..Len(tbl) : tbl[i].osmid = tbl[j].osmid => i = j

\* nodes[['x', 'y']]
ColsXY(tbl) == [i \in 1..Len(tbl) |-> <<tbl[i].x, tbl[i].y>>]

\* nodes[['y', 'x']]
ColsYX(tbl) == [i \in 1..Len(tbl) |-> <<tbl[i].y, tbl[i].x>>]

\* np.deg2rad on one value: degrees * pi / 180; nan stays nan.
deg2rad(d) == IF d = NaN THEN NaN ELSE (d * 31416) \div 180

Deg2RadRows(rows) ==
    [i \in 1..Len(rows) |-> <<deg2rad(rows[i][1]), deg2rad(rows[i][2])>>]

\* sin and cos of a fixed-point angle, by their Taylor series (Horner form).
X2(a) == (a * a) \div Scale

Sin(a) ==
    (a * (Scale - (X2(a) * (Scale - (X2(a) * (Scale - X2(a) \div 42))
        \div (20 * Scale))) \div (6 * Scale))) \div Scale

Cos(a) ==
    Scale - (X2(a) * (Scale - (X2(a) * (Scale - (X2(a) * (Scale - X2(a) \div 56))
        \div (30 * Scale))) \div (12 * Scale))) \div (2 * Scale)

\* a < b on floats: every comparison with nan is false.
Less(a, b) == a # NaN /\ b # NaN /\ a < b

\* cKDTree's Minkowski p=2 distance between two rows, kept squared
\* (the square root is monotone, and 0 stays 0).
Euclidean(p, q) ==
    IF p[1] = NaN \/ p[2] = NaN \/ q[1] = NaN \/ q[2] = NaN THEN NaN
    ELSE (p[1] - q[1]) * (p[1] - q[1]) + (p[2] - q[2]) * (p[2] - q[2])

\* BallTree metric='haversine' on rows <<lat, lng>> in radians, as the
\* reduced distance sin^2(dlat/2) + cos(lat1) cos(lat2) sin^2(dlng/2)
\* (2 asin sqrt of it is monotone).
Haversine(p, q) ==
    IF p[1] = NaN \/ p[2] = NaN \/ q[1] = NaN \/ q[2] = NaN THEN NaN
    ELSE LET sl == Sin(Abs(p[1] - q[1]) \div 2)
             sn == Sin(Abs(p[2] - q[2]) \div 2)
         IN  (sl * sl) \div Scale
             + (((Cos(p[1]) * Cos(q[1])) \div Scale) * ((sn * sn) \div Scale))
               \div Scale

\* Variant: the BallTree built without metric='haversine' (its default is the
\* Euclidean distance on the radian rows).
MetricDefault(kind, p, q) == Euclidean(p, q)

Metric(kind, p, q) ==
    IF kind = "BallTree" THEN Haversine(p, q) ELSE Euclidean(p, q)

\* The k=1 search of one leaf: rows are visited in stored order and a row
\* replaces the best so far only when strictly closer.  With no row closer
\* than infinity the answer is (inf, n).  Trees of at most leafsize rows
\* (16 for cKDTree, 40 for BallTree) are a single leaf.
RECURSIVE LeafScan(_, _, _, _)
LeafScan(t, q, i, best) ==
    IF i > Len(t.data) THEN best
    ELSE LET d == Metric(t.kind, q, t.data[i])
         IN  LeafScan(t, q, i + 1,
                      IF Less(d, best.d) THEN [d |-> d, i |-> i - 1] ELSE best)

QueryOne(t, q) == LeafScan(t, q, 1, [d |-> Inf, i |-> Len(t.data)])

\* tree.query(X, k=1): one independent search per row of X.
TreeQuery(t, X) == [r \in 1..Len(X) |-> QueryOne(t, X[r])]

\* nodes.iloc[positions].index
IlocIndex(tbl, positions) ==
    [r \in 1..Len(positions) |-> tbl[positions[r] + 1].osmid]

InBounds(tbl, positions) ==
    \A r \in 1..Len(positions) : positions[r] >= 0 /\ positions[r] < Len(tbl)

AllFinite(X) == \A r \in 1..Len(X) : IsFinite(X[r][1]) /\ IsFinite(X[r][2])

Raise(cell, kind) ==
    /\ pc' = "failed"
    /\ err' = [cell |-> cell, kind |-> kind]

\* -------------------------------------------------------------------- init
Init ==
    /\ pc = "load_parcels"
    /\ err = NoErr
    /\ nodes_csv \in SeqsUpTo(NodeRow, MaxNodes)
    /\ parcels_shp \in SeqsUpTo(ParcelRow, MaxParcels)
    /\ nodes = <<>>
    /\ parcels = <<>>
    /\ tree = NoTree
    /\ dist = <<>>
    /\ idx = <<>>
    /\ node = <<>>
    /\ nodes_rad = <<>>
    /\ parcels_rad = <<>>
    /\ df_save = <<>>

\* ----------------------------------------------------------------- actions
\* Cells 2, 7, 8: load the parcels and extract x and y from the centroids.
LoadParcels ==
    /\ pc = "load_parcels"
    /\ parcels' = parcels_shp
    /\ pc' = "load_nodes"
    /\ UNCHANGED <<err, nodes_csv, parcels_shp, nodes, tree, dist, idx, node,
                   nodes_rad, parcels_rad, df_save>>

\* Variant: cell 4 without its assert.
LoadNodesNoAssert ==
    /\ pc = "load_nodes"
    /\ nodes' = nodes_csv
    /\ pc' = "build_kd"
    /\ UNCHANGED <<err, nodes_csv, parcels_shp, parcels, tree, dist, idx, node,
                   nodes_rad, parcels_rad, df_save>>

\* Cell 4: load the network nodes; assert nodes.index.is_unique.
LoadNodes ==
    /\ pc = "load_nodes"
    /\ nodes' = nodes_csv
    /\ IF is_unique(nodes_csv)
       THEN pc' = "build_kd" /\ err' = err
       ELSE Raise("load_nodes", "AssertionError")
    /\ UNCHANGED <<nodes_csv, parcels_shp, parcels, tree, dist, idx, node,
                   nodes_rad, parcels_rad, df_save>>

\* Variant: cell 9 with the columns as ['y', 'x'], the order cell 11 uses.
BuildKDSwapped ==
    /\ pc = "build_kd"
    /\ tree' = [kind |-> "cKDTree", data |-> ColsYX(nodes)]
    /\ pc' = "query_kd"
    /\ UNCHANGED <<err, nodes_csv, parcels_shp, nodes, parcels, dist, idx, node,
                   nodes_rad, parcels_rad, df_save>>

\* Cell 9: tree = cKDTree(data=nodes[['x', 'y']], ...).  An empty table
\* builds a tree with n = 0.
BuildKD ==
    /\ pc = "build_kd"
    /\ tree' = [kind |-> "cKDTree", data |-> ColsXY(nodes)]
    /\ pc' = "query_kd"
    /\ UNCHANGED <<err, nodes_csv, parcels_shp, nodes, parcels, dist, idx, node,
                   nodes_rad, parcels_rad, df_save>>

\* Cell 10: dist, idx = tree.query(parcels[['x', 'y']], k=1);
\*          parcels['node'] = nodes.iloc[idx].index
\* A non-finite query row either makes query() raise ValueError (scipy
\* releases that validate x) or gets the answer (inf, n) (releases that do
\* not); position n is then out of bounds for nodes.iloc.
QueryKD ==
    /\ pc = "query_kd"
    /\ \/ /\ ~AllFinite(ColsXY(parcels))
          /\ Raise("query_kd", "ValueError")
          /\ UNCHANGED <<dist, idx, node>>
       \/ LET r == TreeQuery(tree, ColsXY(parcels))
              positions == [k \in 1..Len(r) |-> r[k].i]
          IN  /\ dist' = [k \in 1..Len(r) |-> r[k].d]
              /\ idx' = positions
              /\ IF InBounds(nodes, positions)
                 THEN /\ node' = IlocIndex(nodes, positions)
                      /\ pc' = "to_rad"
                      /\ err' = err
                 ELSE /\ Raise("query_kd", "IndexError")
                      /\ node' = node
    /\ UNCHANGED <<nodes_csv, parcels_shp, nodes, parcels, tree, nodes_rad,
                   parcels_rad, df_save>>

\* Cell 11: nodes_rad = np.deg2rad(nodes[['y', 'x']]), the same for parcels.
ToRadians ==
    /\ pc = "to_rad"
    /\ nodes_rad' = Deg2RadRows(ColsYX(nodes))
    /\ parcels_rad' = Deg2RadRows(ColsYX(parcels))
    /\ pc' = "build_ball"
    /\ UNCHANGED <<err, nodes_csv, parcels_shp, nodes, parcels, tree, dist, idx,
                   node, df_save>>

\* Variant: cell 12 skipped, so that cell 13 queries the tree of cell 9.
BuildBallSkipped ==
    /\ pc = "build_ball"
    /\ pc' = "query_ball"
    /\ UNCHANGED <<err, tree, nodes_csv, parcels_shp, nodes, parcels, dist, idx,
                   node, nodes_rad, parcels_rad, df_save>>

\* Cell 12: tree = BallTree(nodes_rad, metric='haversine').  The constructor
\* raises ValueError on an array with no rows or with a non-finite value.
BuildBall ==
    /\ pc = "build_ball"
    /\ IF Len(nodes_rad) = 0 \/ ~AllFinite(nodes_rad)
       THEN Raise("build_ball", "ValueError") /\ tree' = tree
       ELSE /\ tree' = [kind |-> "BallTree", data |-> nodes_rad]
            /\ pc' = "query_ball"
            /\ err' = err
    /\ UNCHANGED <<nodes_csv, parcels_shp, nodes, parcels, dist, idx, node,
                   nodes_rad, parcels_rad, df_save>>

\* Variant: cell 13 without its second line, so that parcels['node'] keeps
\* the planar answers.
QueryBallNoWrite ==
    /\ pc = "query_ball"
    /\ AllFinite(parcels_rad)
    /\ idx' = [k \in 1..Len(parcels_rad) |-> TreeQuery(tree, parcels_rad)[k].i]
    /\ pc' = "save"
    /\ UNCHANGED <<err, node, nodes_csv, parcels_shp, nodes, parcels, tree, dist,
                   nodes_rad, parcels_rad, df_save>>

\* Cell 13: idx = tree.query(parcels_rad, k=1, return_distance=False);
\*          parcels['node'] = nodes.iloc[idx[:,0]].index
\* idx is kept as its column 0.  query() validates its input and raises
\* ValueError on an array with no rows or with a non-finite value.
QueryBall ==
    /\ pc = "query_ball"
    /\ IF Len(parcels_rad) = 0 \/ ~AllFinite(parcels_rad)
       THEN Raise("query_ball", "ValueError") /\ UNCHANGED <<idx, node>>
       ELSE LET r == TreeQuery(tree, parcels_rad)
                positions == [k \in 1..Len(r) |-> r[k].i]
            IN  /\ idx' = positions
                /\ IF InBounds(nodes, positions)
                   THEN /\ node' = IlocIndex(nodes, positions)
                        /\ pc' = "save"
                        /\ err' = err
                   ELSE /\ Raise("query_ball", "IndexError")
                        /\ node' = node
    /\ UNCHANGED <<nodes_csv, parcels_shp, nodes, parcels, tree, dist,
                   nodes_rad, parcels_rad, df_save>>

\* Cell 14: df_save = parcels.reset_index()[['PARCEL_ID', ..., 'node']]
\* renamed to parcel_id, node_id and written as csv.  PARCEL_ID is the row
\* number of the parcel.
SaveCsv ==
    /\ pc = "save"
    /\ df_save' = [k \in 1..Len(parcels) |-> [parcel_id |-> k, node_id |-> node[k]]]
    /\ pc' = "done"
    /\ UNCHANGED <<err, nodes_csv, parcels_shp, nodes, parcels, tree, dist, idx,
                   node, nodes_rad, parcels_rad>>

Next ==
    \/ LoadParcels
    \/ LoadNodes
    \/ BuildKD
    \/ QueryKD
    \/ ToRadians
    \/ BuildBall
    \/ QueryBall
    \/ SaveCsv

Spec == Init /\ [][Next]_vars

\* ------------------------------------------------------- stages of the run
\* parcels['node'] holds the answers of the cKDTree query (cell 10 returned).
PlanarAssigned ==
    \/ pc \in {"to_rad", "build_ball", "query_ball"}
    \/ pc = "failed" /\ err.cell \in {"build_ball", "query_ball"}

\* parcels['node'] holds the answers of the BallTree query (cell 13 returned).
GeodesicAssigned == pc \in {"save", "done"}

\* Cell 10 has run, to its end or to an exception.
QueryKDRan ==
    \/ PlanarAssigned
    \/ GeodesicAssigned
    \/ pc = "failed" /\ err.cell = "query_kd"

NodeXY(k) == <<nodes[k].x, nodes[k].y>>
ParcelXY(i) == <<parcels[i].x, parcels[i].y>>
NodeRad(k) == <<deg2rad(nodes[k].y), deg2rad(nodes[k].x)>>
ParcelRad(i) == <<deg2rad(parcels[i].y), deg2rad(parcels[i].x)>>

\* ------------------------------------------------------------------ claims

\* C1: the node a k=1 query returns is at least as close to the query point,
\* under the metric of the index that answered, as every node of the table
\* (what a brute-force scan of the table finds, up to ties).
C1_Optimality ==
    /\ PlanarAssigned =>
         \A i \in 1..Len(parcels) :
           \E k \in 1..Len(nodes) :
             /\ nodes[k].osmid = node[i]
             /\ \A n \in 1..Len(nodes) :
                  Euclidean(ParcelXY(i), NodeXY(k)) <= Euclidean(ParcelXY(i), NodeXY(n))
    /\ GeodesicAssigned =>
         \A i \in 1..Len(parcels) :
           \E k \in 1..Len(nodes) :
             /\ nodes[k].osmid = node[i]
             /\ \A n \in 1..Len(nodes) :
                  Haversine(ParcelRad(i), NodeRad(k)) <= Haversine(ParcelRad(i), NodeRad(n))

\* Both queries have answered, and for some parcel the table holds a node
\* strictly farther (haversine) than the one chosen and a node strictly
\* farther (planar) than the one the planar query chose.
C1_Witness ==
    /\ pc = "save"
    /\ \E i \in 1..Len(parcels) : \E k, n \in 1..Len(nodes) :
         /\ nodes[k].osmid = node[i]
         /\ Haversine(ParcelRad(i), NodeRad(k)) < Haversine(ParcelRad(i), NodeRad(n))
         /\ dist[i] < Euclidean(ParcelXY(i), NodeXY(k))

\* C2 (as claimed): once the query cell has run, every position the tree
\* returned is a row of the node table and every parcel has a node_id that is
\* an osmid of the table.
C2_TotalValidAssignment ==
    QueryKDRan =>
      /\ Len(idx) = Len(parcels)
      /\ InBounds(nodes, idx)
      /\ Len(node) = Len(parcels)
      /\ \A i \in 1..Len(node) : \E k \in 1..Len(nodes) : nodes[k].osmid = node[i]

\* C3 (as claimed): a query at the coordinates of any node n returns n's own
\* id with distance 0, also when another node has the same coordinates.
C3_Reflexivity ==
    PlanarAssigned =>
      \A i \in 1..Len(parcels) : \A k \in 1..Len(nodes) :
        ParcelXY(i) = NodeXY(k) => node[i] = nodes[k].osmid /\ dist[i] = 0

\* C3 (amended): a query at the coordinates of a node n returns, with
\* distance 0, the id of a node of the table at those coordinates; that is
\* n's own id when no other node shares n's coordinates.
C3_ReflexivityAtCoordinate ==
    PlanarAssigned =>
      \A i \in 1..Len(parcels) : \A k \in 1..Len(nodes) :
        ParcelXY(i) = NodeXY(k) =>
          /\ dist[i] = 0
          /\ \E m \in 1..Len(nodes) :
               nodes[m].osmid = node[i] /\ NodeXY(m) = NodeXY(k)
          /\ (\A m \in 1..Len(nodes) : NodeXY(m) = NodeXY(k) => m = k)
               => node[i] = nodes[k].osmid

\* The planar query answered a parcel that lies on two nodes with distinct
\* ids and the same coordinates.
C3_Witness ==
    /\ PlanarAssigned
    /\ \E i \in 1..Len(parcels) : \E k, m \in 1..Len(nodes) :
         /\ k # m
         /\ nodes[k].osmid # nodes[m].osmid
         /\ NodeXY(k) = NodeXY(m)
         /\ ParcelXY(i) = NodeXY(k)

\* C4 (as claimed): with an empty node table the run stops at the build of
\* the index: no index exists, no query has run and no parcel has a node_id.
C4_EmptyFailsAtBuild ==
    (pc \notin {"load_parcels", "load_nodes", "build_kd"} /\ Len(nodes) = 0) =>
      /\ pc = "failed"
      /\ err.cell = "build_kd"
      /\ tree = NoTree
      /\ idx = <<>>
      /\ node = <<>>

\* C5 (as claimed): a parcel with a non-finite coordinate fails alone: the
\* batch is not aborted and every other parcel has the node_id that a query
\* of the index with its own coordinates alone gives.
C5_PerQueryIsolation ==
    (QueryKDRan /\ Len(nodes) > 0) =>
      \A i \in 1..Len(parcels) :
        AllFinite(<<ParcelXY(i)>>) =>
          /\ i \in DOMAIN node
          /\ LET q == IF tree.kind = "BallTree" THEN ParcelRad(i) ELSE ParcelXY(i)
             IN  node[i] = IlocIndex(nodes, <<QueryOne(tree, q).i>>)[1]

\* C6: whenever an index exists or a query has run, the osmids of the node
\* table are pairwise distinct; a table with a repeated osmid stops the run
\* at the load cell, before any index is built.
C6_UniqueNodeIds ==
    /\ (tree # NoTree \/ idx # <<>> \/ node # <<>> \/ QueryKDRan) =>
         \A i, j \in 1..Len(nodes) : nodes[i].osmid = nodes[j].osmid => i = j
    /\ (pc \notin {"load_parcels", "load_nodes"}
        /\ \E i, j \in 1..Len(nodes_csv) :
             i # j /\ nodes_csv[i].osmid = nodes_csv[j].osmid) =>
         pc = "failed" /\ err.cell = "load_nodes" /\ tree = NoTree

\* A CSV with a repeated osmid has been rejected at the load cell.
C6_Witness ==
    /\ pc = "failed"
    /\ err = [cell |-> "load_nodes", kind |-> "AssertionError"]
    /\ Len(nodes) > 1

\* C7: a query cell runs only against the index its build cell completed,
\* built from the node table as it is, and while an index is built and its
\* query has not returned neither the index nor the node table changes.
C7_BuildBarrier ==
    [][/\ pc = "query_kd" =>
            tree = [kind |-> "cKDTree", data |-> ColsXY(nodes)]
       /\ pc = "query_ball" =>
            tree = [kind |-> "BallTree", data |-> Deg2RadRows(ColsYX(nodes))]
       /\ pc \in {"query_kd", "query_ball"} => tree' = tree /\ nodes' = nodes
       /\ (idx' # idx \/ node' # node) => pc \in {"query_kd", "query_ball"}]_vars

\* Both indexes were built and queried, with parcels to answer.
C7_Witness ==
    /\ pc = "save"
    /\ tree.kind = "BallTree"
    /\ Len(node) > 0

\* The node table with its rows in the order f.
Reorder(tbl, f) == [k \in 1..Len(tbl) |-> tbl[f[k]]]

\* The node_ids cell 9 and cell 10 give with the node table tbl.
PlanarAnswer(tbl) ==
    LET r == TreeQuery([kind |-> "cKDTree", data |-> ColsXY(tbl)], ColsXY(parcels))
    IN  IlocIndex(tbl, [k \in 1..Len(r) |-> r[k].i])

\* C8 (as claimed): every ordering of the node table gives every parcel the
\* node_id the run gave it, ties included.
C8_OrderIndependence ==
    PlanarAssigned =>
      \A f \in Permutations(1..Len(nodes)) :
        PlanarAnswer(Reorder(nodes, f)) = node

\* C10: every saved row carries, for its parcel, the osmid of a node that is
\* nearest under haversine: the value the BallTree query wrote last.
C10_SavedIsGeodesic ==
    pc = "done" =>
      /\ Len(df_save) = Len(parcels)
      /\ \A i \in 1..Len(df_save) :
           /\ df_save[i].parcel_id = i
           /\ \E k \in 1..Len(nodes) :
                /\ nodes[k].osmid = df_save[i].node_id
                /\ \A n \in 1..Len(nodes) :
                     Haversine(ParcelRad(i), NodeRad(k))
                       <= Haversine(ParcelRad(i), NodeRad(n))

\* A saved row whose node is not the planar nearest: dist still holds the
\* planar distances of cell 10.
C10_Witness ==
    /\ pc = "done"
    /\ \E i \in 1..Len(df_save) : \E k \in 1..Len(nodes) :
         /\ nodes[k].osmid = df_save[i].node_id
         /\ dist[i] < Euclidean(ParcelXY(i), NodeXY(k))
=============================================================================
